---- MODULE Spec2Model ----
(***************************************************************************)
(* Model of luftboud/latencyReducer:                                       *)
(*   - the C++ signaling server (server.cpp, later revision, lines 33-107, *)
(*     and server.h): launch / client_worker / server_t::log_participants  *)
(*     over the two socket_t slots `sender` and `viewer`;                  *)
(*   - the web client (client.js, later revision, lines 203-440): start,   *)
(*     stop, the websocket handlers, handleOffer and addRemoteCandidate.   *)
(* Specification Spec is the server, ClientSpec is the web client.         *)
(***************************************************************************)
EXTENDS Integers, Sequences, FiniteSets, TLC

\* ------------------------------------------------------------------ bounds
MaxConns == 2          \* connections the listener accepts in one run

MaxSessions == 2       \* start() calls of the web client in one run

MaxMsgs == 4           \* message events the web client's websockets dispatch in one run

MaxLocalCands == 1     \* icecandidate events the web client's peer connections dispatch

Conns == 1..MaxConns
NoConn == 0            \* an empty websocket_type (null shared_ptr)

\* ------------------------------------------------------------------ frames
\* A text frame as the server sees it: what json::parse makes of it (kind),
\* its "type" member and its "role" member.
NoFrame == [kind |-> "none", type |-> "none", role |-> "absent"]

Garbage == [kind |-> "text", type |-> "none", role |-> "absent"]

Scalar == [kind |-> "scalar", type |-> "none", role |-> "absent"]

Obj(t, r) == [kind |-> "object", type |-> t, role |-> r]

Frames ==
    { Garbage, Scalar,
      Obj("join", "sender"), Obj("join", "viewer"), Obj("join", "other"),
      Obj("join", "absent"), Obj("join", "number"),
      Obj("offer", "absent"), Obj("answer", "absent"),
      Obj("candidate", "absent"), Obj("offer", "sender") }

\* Faulty variant of ParseRole: a missing "role" member is read as "sender"
\* instead of throwing.
ParseRoleDefaultsToSender(f) ==
    IF f.kind # "object" THEN "throw"
    ELSE IF f.role = "number" THEN "throw"
    ELSE IF f.role = "absent" THEN "sender"
    ELSE f.role

\* json::parse(buf).as_object()["role"].as_string(): the role string, or
\* "throw" when parse, as_object or as_string throws.
ParseRole(f) ==
    IF f.kind # "object" THEN "throw"
    ELSE IF f.role \in {"absent", "number"} THEN "throw"
    ELSE f.role

VARIABLES
    pc,         \* server: position of each connection's client_worker thread
    msg,        \* server: the frame client_worker holds (NoFrame between iterations)
    sender,     \* server_t::sender.ws
    viewer,     \* server_t::viewer.ws
    mutex,      \* holder of the static std::mutex m, NoConn when free
    sock,       \* state of each connection's websocket stream
    delivered,  \* frames the server has written to each connection
    videoControlsStart,       \* client.js global
    peerConnection,           \* client.js global: 0 (null) or the number of the RTCPeerConnection
    websocketSignal,          \* client.js global: 0 (null) or the number of the WebSocket
    pendingRemoteCandidates,  \* client.js global
    remoteDescription,        \* peerConnection.remoteDescription is set
    localDescription,         \* peerConnection.localDescription is set (ICE gathering runs)
    readyState,               \* readyState of the WebSocket made by the last connectWebSocket
    chain,                    \* operations pending on peerConnection, in call order
    applied,                  \* addIceCandidate calls made, in call order
    wsSent,                   \* frames the client has sent, in send order
    started,                  \* start() calls that created a session so far
    received,                 \* message events dispatched so far
    gathered                  \* icecandidate events dispatched so far

srvVars == <<pc, msg, sender, viewer, mutex, sock, delivered>>

cliVars ==
    <<videoControlsStart, peerConnection, websocketSignal, pendingRemoteCandidates,
      remoteDescription, localDescription, readyState, chain, applied, wsSent,
      started, received, gathered>>

vars == <<srvVars, cliVars>>

\* socket_t::empty
empty(ws) == ws = NoConn

\* server_t::everybody
everybody == ~(empty(sender) \/ empty(viewer))

\* The stream of connection c is destroyed when the last shared_ptr to it goes:
\* the thread's own copy (until client_worker returns) and the slots' copies.
Destroyed(c, p, s, v) == p[c] = "done" /\ s # c /\ v # c

SockAfter(p, s, v) ==
    [c \in Conns |->
        IF sock[c] = "open" /\ Destroyed(c, p, s, v) THEN "closed" ELSE sock[c]]

Init ==
    /\ pc = [c \in Conns |-> "idle"]
    /\ msg = [c \in Conns |-> NoFrame]
    /\ sender = NoConn
    /\ viewer = NoConn
    /\ mutex = NoConn
    /\ sock = [c \in Conns |-> "none"]
    /\ delivered = [c \in Conns |-> <<>>]
    /\ videoControlsStart = FALSE
    /\ peerConnection = 0
    /\ websocketSignal = 0
    /\ pendingRemoteCandidates = <<>>
    /\ remoteDescription = FALSE
    /\ localDescription = FALSE
    /\ readyState = "none"
    /\ chain = <<>>
    /\ applied = <<>>
    /\ wsSent = <<>>
    /\ started = 0
    /\ received = 0
    /\ gathered = 0

\* server_t::launch: accept a TCP connection and start its client_worker.
Launch(c) ==
    /\ pc[c] = "idle"
    /\ pc' = [pc EXCEPT ![c] = "accept"]
    /\ sock' = [sock EXCEPT ![c] = "open"]
    /\ UNCHANGED <<msg, sender, viewer, mutex, delivered, cliVars>>

\* client_worker: ws->accept() succeeds.
WsAccept(c) ==
    /\ pc[c] = "accept"
    /\ pc' = [pc EXCEPT ![c] = "read"]
    /\ UNCHANGED <<msg, sender, viewer, mutex, sock, delivered, cliVars>>

\* client_worker: ws->read(buff) returns frame f.
Read(c, f) ==
    /\ pc[c] = "read"
    /\ sock[c] = "open"
    /\ pc' = [pc EXCEPT ![c] = "check"]
    /\ msg' = [msg EXCEPT ![c] = f]
    /\ UNCHANGED <<sender, viewer, mutex, sock, delivered, cliVars>>

\* Faulty variant of Disconnect: the thread clears the slots that hold its own
\* connection when it ends.
DisconnectClearsOwnSlot(c) ==
    /\ pc[c] \in {"accept", "read"}
    /\ pc' = [pc EXCEPT ![c] = "done"]
    /\ sock' = [sock EXCEPT ![c] = "closed"]
    /\ sender' = IF sender = c THEN NoConn ELSE sender
    /\ viewer' = IF viewer = c THEN NoConn ELSE viewer
    /\ UNCHANGED <<msg, mutex, delivered, cliVars>>

\* Faulty variant of Disconnect: the thread of a registered connection resets
\* the whole registry when it ends.
DisconnectResetsRegistry(c) ==
    /\ pc[c] \in {"accept", "read"}
    /\ pc' = [pc EXCEPT ![c] = "done"]
    /\ sock' = [sock EXCEPT ![c] = "closed"]
    /\ sender' = IF c \in {sender, viewer} THEN NoConn ELSE sender
    /\ viewer' = IF c \in {sender, viewer} THEN NoConn ELSE viewer
    /\ UNCHANGED <<msg, mutex, delivered, cliVars>>

\* client_worker: ws->accept() or ws->read() throws (peer closed, or transport
\* error); either catch block ends the thread.
Disconnect(c) ==
    /\ pc[c] \in {"accept", "read"}
    /\ pc' = [pc EXCEPT ![c] = "done"]
    /\ sock' = [sock EXCEPT ![c] = "closed"]
    /\ UNCHANGED <<msg, sender, viewer, mutex, delivered, cliVars>>

\* client_worker line 75: everybody() is true, the frame is dropped.
CheckPaired(c) ==
    /\ pc[c] = "check"
    /\ everybody
    /\ pc' = [pc EXCEPT ![c] = "read"]
    /\ msg' = [msg EXCEPT ![c] = NoFrame]
    /\ UNCHANGED <<sender, viewer, mutex, sock, delivered, cliVars>>

\* client_worker line 75: everybody() is false, log_participants is called.
CheckUnpaired(c) ==
    /\ pc[c] = "check"
    /\ ~everybody
    /\ pc' = [pc EXCEPT ![c] = "lock"]
    /\ UNCHANGED <<msg, sender, viewer, mutex, sock, delivered, cliVars>>

\* log_participants line 50: the lock_guard acquires m.
Lock(c) ==
    /\ pc[c] = "lock"
    /\ mutex = NoConn
    /\ mutex' = c
    /\ pc' = [pc EXCEPT ![c] = "cs"]
    /\ UNCHANGED <<msg, sender, viewer, sock, delivered, cliVars>>

\* Faulty variant of Register: the second branch is a plain `else`, so every
\* role string other than "sender" registers the connection as viewer.
RegisterElseViewer(c) ==
    /\ pc[c] = "cs"
    /\ mutex = c
    /\ ParseRole(msg[c]) # "throw"
    /\ sender' = IF ParseRole(msg[c]) = "sender" THEN c ELSE sender
    /\ viewer' = IF ParseRole(msg[c]) # "sender" THEN c ELSE viewer
    /\ mutex' = NoConn
    /\ pc' = [pc EXCEPT ![c] = "read"]
    /\ msg' = [msg EXCEPT ![c] = NoFrame]
    /\ sock' = SockAfter(pc', sender', viewer')
    /\ UNCHANGED <<delivered, cliVars>>

\* log_participants lines 51-61 for a frame whose role parses: set_ws on the
\* slot the role names (none for another role), release m, back to the loop.
Register(c) ==
    /\ pc[c] = "cs"
    /\ mutex = c
    /\ ParseRole(msg[c]) # "throw"
    /\ sender' = IF ParseRole(msg[c]) = "sender" THEN c ELSE sender
    /\ viewer' = IF ParseRole(msg[c]) = "viewer" THEN c ELSE viewer
    /\ mutex' = NoConn
    /\ pc' = [pc EXCEPT ![c] = "read"]
    /\ msg' = [msg EXCEPT ![c] = NoFrame]
    /\ sock' = SockAfter(pc', sender', viewer')
    /\ UNCHANGED <<delivered, cliVars>>

\* Faulty variant of ParseThrows: m is locked and unlocked by hand, and the
\* exception leaves log_participants without unlocking it.
ParseThrowsKeepsLock(c) ==
    /\ pc[c] = "cs"
    /\ mutex = c
    /\ ParseRole(msg[c]) = "throw"
    /\ pc' = [pc EXCEPT ![c] = "done"]
    /\ sock' = SockAfter(pc', sender, viewer)
    /\ UNCHANGED <<msg, sender, viewer, mutex, delivered, cliVars>>

\* Faulty variant of ParseThrows: the exception is caught by no catch block of
\* client_worker, so it ends every thread of the process.
ParseThrowsUncaught(c) ==
    /\ pc[c] = "cs"
    /\ mutex = c
    /\ ParseRole(msg[c]) = "throw"
    /\ mutex' = NoConn
    /\ pc' = [d \in Conns |-> "done"]
    /\ sock' = [d \in Conns |-> IF sock[d] = "open" THEN "closed" ELSE sock[d]]
    /\ UNCHANGED <<msg, sender, viewer, delivered, cliVars>>

\* log_participants lines 51-52 throw: the lock_guard releases m while the
\* exception unwinds into client_worker's catch blocks, which end the thread.
\* msg keeps the frame the thread ended on.
ParseThrows(c) ==
    /\ pc[c] = "cs"
    /\ mutex = c
    /\ ParseRole(msg[c]) = "throw"
    /\ mutex' = NoConn
    /\ pc' = [pc EXCEPT ![c] = "done"]
    /\ sock' = SockAfter(pc', sender, viewer)
    /\ UNCHANGED <<msg, sender, viewer, delivered, cliVars>>

Next ==
    \/ \E c \in Conns : Launch(c)
    \/ \E c \in Conns : WsAccept(c)
    \/ \E c \in Conns : \E f \in Frames : Read(c, f)
    \/ \E c \in Conns : Disconnect(c)
    \/ \E c \in Conns : CheckPaired(c)
    \/ \E c \in Conns : CheckUnpaired(c)
    \/ \E c \in Conns : Lock(c)
    \/ \E c \in Conns : Register(c)
    \/ \E c \in Conns : ParseThrows(c)

Spec == Init /\ [][Next]_vars

\* The server under fair scheduling: a thread inside log_participants keeps
\* running, and a thread that waits for m, which is free again and again, gets
\* it in the end. Frames and disconnects come from the peers, under no fairness.
FairSpec ==
    /\ Init
    /\ [][Next]_vars
    /\ \A c \in Conns :
        /\ SF_vars(Lock(c))
        /\ WF_vars(Register(c))
        /\ WF_vars(ParseThrows(c))


\* ------------------------------------------------------------------ web client
\* An operation pending on the RTCPeerConnection's operations chain: the call
\* awaited (op) and, for the addIceCandidate awaited inside handleOffer's loop,
\* the elements of the array the loop has still to visit (rest).
Op(o, r) == [op |-> o, rest |-> r]

\* start(), with createPeerConnection() and connectWebSocket().
start ==
    /\ ~videoControlsStart
    /\ started < MaxSessions
    /\ videoControlsStart' = TRUE
    /\ started' = started + 1
    /\ peerConnection' = started + 1
    /\ remoteDescription' = FALSE
    /\ localDescription' = FALSE
    /\ chain' = <<>>
    /\ websocketSignal' = started + 1
    /\ readyState' = "connecting"
    /\ UNCHANGED <<pendingRemoteCandidates, applied, wsSent, received, gathered, srvVars>>

\* stop(), from the stop button or from a "failed" connection state. The closed
\* peer connection settles none of its pending operations, so the handlers that
\* await one never resume.
stop ==
    /\ videoControlsStart
    /\ videoControlsStart' = FALSE
    /\ peerConnection' = 0
    /\ remoteDescription' = FALSE
    /\ localDescription' = FALSE
    /\ chain' = <<>>
    /\ websocketSignal' = 0
    /\ readyState' = "none"
    /\ UNCHANGED <<pendingRemoteCandidates, applied, wsSent, started, received, gathered,
                   srvVars>>

\* Faulty variant of WsOpen: the "open" listener only logs, as in the earlier
\* revision of connectWebSocket, and sends no join frame.
WsOpenNoJoin ==
    /\ websocketSignal # 0
    /\ readyState = "connecting"
    /\ readyState' = "open"
    /\ UNCHANGED <<videoControlsStart, peerConnection, websocketSignal,
                   pendingRemoteCandidates, remoteDescription, localDescription, chain,
                   applied, wsSent, started, received, gathered, srvVars>>

\* connectWebSocket: the "open" listener sends the join frame.
WsOpen ==
    /\ websocketSignal # 0
    /\ readyState = "connecting"
    /\ readyState' = "open"
    /\ wsSent' = Append(wsSent, [ws |-> websocketSignal, type |-> "join"])
    /\ UNCHANGED <<videoControlsStart, peerConnection, websocketSignal,
                   pendingRemoteCandidates, remoteDescription, localDescription, chain,
                   applied, started, received, gathered, srvVars>>

\* The server closes the websocket, or it fails ("close" / "error" listeners).
WsClosed ==
    /\ websocketSignal # 0
    /\ readyState \in {"connecting", "open"}
    /\ readyState' = "closed"
    /\ UNCHANGED <<videoControlsStart, peerConnection, websocketSignal,
                   pendingRemoteCandidates, remoteDescription, localDescription, chain,
                   applied, wsSent, started, received, gathered, srvVars>>

\* A message event can be dispatched on the open websocket.
CanReceive ==
    /\ websocketSignal # 0
    /\ readyState = "open"
    /\ peerConnection # 0
    /\ received < MaxMsgs

\* onmessage, case "offer" with an sdp: handleOffer up to its first await.
OnOffer ==
    /\ CanReceive
    /\ received' = received + 1
    /\ chain' = Append(chain, Op("setRemoteDescription", <<>>))
    /\ UNCHANGED <<videoControlsStart, peerConnection, websocketSignal,
                   pendingRemoteCandidates, remoteDescription, localDescription,
                   readyState, applied, wsSent, started, gathered, srvVars>>

\* onmessage, case "candidate": addRemoteCandidate up to its await. The
\* candidate is named by its arrival number and the session it arrived in.
OnCandidate ==
    /\ CanReceive
    /\ received' = received + 1
    /\ LET cand == [id |-> received + 1, sess |-> websocketSignal] IN
        IF ~remoteDescription
        THEN /\ pendingRemoteCandidates' = Append(pendingRemoteCandidates, cand)
             /\ UNCHANGED <<applied, chain>>
        ELSE /\ applied' = Append(applied, [cand |-> cand, pc |-> peerConnection])
             /\ chain' = Append(chain, Op("addIceCandidate", <<>>))
             /\ UNCHANGED pendingRemoteCandidates
    /\ UNCHANGED <<videoControlsStart, peerConnection, websocketSignal,
                   remoteDescription, localDescription, readyState, wsSent, started,
                   gathered, srvVars>>

\* onmessage for a frame that is not JSON, an offer without sdp, or of an
\* unknown type: logged and ignored.
OnOtherMessage ==
    /\ CanReceive
    /\ received' = received + 1
    /\ UNCHANGED <<videoControlsStart, peerConnection, websocketSignal,
                   pendingRemoteCandidates, remoteDescription, localDescription,
                   readyState, chain, applied, wsSent, started, gathered, srvVars>>

\* handleOffer lines 309-322 from the start of the loop over array `arr`: the
\* first addIceCandidate call of the loop, or createAnswer when there is none.
EnterFlush(arr, ch) ==
    IF Len(arr) > 0
    THEN /\ applied' = Append(applied, [cand |-> Head(arr), pc |-> peerConnection])
         /\ chain' = Append(ch, Op("flush", Tail(arr)))
    ELSE /\ applied' = applied
         /\ chain' = Append(ch, Op("createAnswer", <<>>))

\* handleOffer: setRemoteDescription resolves; the handler runs on to its next
\* await.
SetRemoteDescriptionDone ==
    /\ peerConnection # 0
    /\ chain # <<>>
    /\ Head(chain).op = "setRemoteDescription"
    /\ remoteDescription' = TRUE
    /\ EnterFlush(pendingRemoteCandidates, Tail(chain))
    /\ UNCHANGED <<videoControlsStart, peerConnection, websocketSignal,
                   pendingRemoteCandidates, localDescription, readyState, wsSent,
                   started, received, gathered, srvVars>>

\* handleOffer: the addIceCandidate awaited in the loop resolves; the loop
\* calls addIceCandidate for the next element, or ends and empties the queue.
FlushStep ==
    /\ peerConnection # 0
    /\ chain # <<>>
    /\ Head(chain).op = "flush"
    /\ IF Len(Head(chain).rest) > 0
       THEN /\ applied' = Append(applied, [cand |-> Head(Head(chain).rest),
                                           pc |-> peerConnection])
            /\ chain' = Append(Tail(chain), Op("flush", Tail(Head(chain).rest)))
            /\ UNCHANGED pendingRemoteCandidates
       ELSE /\ pendingRemoteCandidates' = <<>>
            /\ chain' = Append(Tail(chain), Op("createAnswer", <<>>))
            /\ UNCHANGED applied
    /\ UNCHANGED <<videoControlsStart, peerConnection, websocketSignal,
                   remoteDescription, localDescription, readyState, wsSent, started,
                   received, gathered, srvVars>>

\* addRemoteCandidate: the awaited addIceCandidate resolves.
AddIceCandidateDone ==
    /\ peerConnection # 0
    /\ chain # <<>>
    /\ Head(chain).op = "addIceCandidate"
    /\ chain' = Tail(chain)
    /\ UNCHANGED <<videoControlsStart, peerConnection, websocketSignal,
                   pendingRemoteCandidates, remoteDescription, localDescription,
                   readyState, applied, wsSent, started, received, gathered, srvVars>>

\* handleOffer: createAnswer resolves, setLocalDescription is called.
CreateAnswerDone ==
    /\ peerConnection # 0
    /\ chain # <<>>
    /\ Head(chain).op = "createAnswer"
    /\ chain' = Append(Tail(chain), Op("setLocalDescription", <<>>))
    /\ UNCHANGED <<videoControlsStart, peerConnection, websocketSignal,
                   pendingRemoteCandidates, remoteDescription, localDescription,
                   readyState, applied, wsSent, started, received, gathered, srvVars>>

\* handleOffer: setLocalDescription resolves, the answer is sent (a send on a
\* websocket that is closed is discarded).
SetLocalDescriptionDone ==
    /\ peerConnection # 0
    /\ chain # <<>>
    /\ Head(chain).op = "setLocalDescription"
    /\ chain' = Tail(chain)
    /\ localDescription' = TRUE
    /\ wsSent' = IF websocketSignal # 0 /\ readyState = "open"
                 THEN Append(wsSent, [ws |-> websocketSignal, type |-> "answer"])
                 ELSE wsSent
    /\ UNCHANGED <<videoControlsStart, peerConnection, websocketSignal,
                   pendingRemoteCandidates, remoteDescription, readyState, applied,
                   started, received, gathered, srvVars>>

\* peerConnection.onicecandidate with a candidate.
OnIceCandidate ==
    /\ peerConnection # 0
    /\ localDescription
    /\ gathered < MaxLocalCands
    /\ gathered' = gathered + 1
    /\ wsSent' = IF websocketSignal # 0 /\ readyState = "open"
                 THEN Append(wsSent, [ws |-> websocketSignal, type |-> "candidate"])
                 ELSE wsSent
    /\ UNCHANGED <<videoControlsStart, peerConnection, websocketSignal,
                   pendingRemoteCandidates, remoteDescription, localDescription,
                   readyState, chain, applied, started, received, srvVars>>

ClientNext ==
    \/ start
    \/ stop
    \/ WsOpen
    \/ WsClosed
    \/ OnOffer
    \/ OnCandidate
    \/ OnOtherMessage
    \/ SetRemoteDescriptionDone
    \/ FlushStep
    \/ AddIceCandidateDone
    \/ CreateAnswerDone
    \/ SetLocalDescriptionDone
    \/ OnIceCandidate

ClientSpec == Init /\ [][ClientNext]_vars


\* ------------------------------------------------------------------ claims
\* Connection c's thread takes this step.
Steps(c) == pc'[c] # pc[c]

\* C1: a JOIN for role R from connection c always makes c the occupant of slot
\* R: whenever c's thread finishes handling a join frame for sender or viewer,
\* the slot of that role holds c, whatever the slots held before.
C1_JoinOccupiesSlot ==
    [][\A c \in Conns :
        (/\ pc[c] \in {"check", "cs"}
         /\ pc'[c] = "read"
         /\ msg[c].type = "join")
        => /\ msg[c].role = "sender" => sender' = c
           /\ msg[c].role = "viewer" => viewer' = c]_vars

\* C2: in the paired state every offer read from the sender's connection is
\* delivered to the viewer's connection and every answer read from the viewer's
\* connection is delivered to the sender's connection, appended in the order read.
C2_PairedForwarding ==
    [][\A c \in Conns :
        (pc[c] = "check" /\ Steps(c) /\ everybody)
        => /\ (sender = c /\ msg[c].type = "offer")
                => delivered'[viewer] = Append(delivered[viewer], msg[c])
           /\ (viewer = c /\ msg[c].type = "answer")
                => delivered'[sender] = Append(delivered[sender], msg[c])]_vars

\* C3: an offer the registered sender sent while the viewer slot was empty
\* (log_participants was run on it, and the sender's thread ended on it) is the
\* first frame delivered to the viewer once the viewer has joined.
C3_PendingOfferDelivered ==
    \A c \in Conns :
        (/\ sender = c
         /\ msg[c] = Obj("offer", "absent")
         /\ pc[c] = "done"
         /\ viewer # NoConn
         /\ viewer # c)
        => /\ delivered[viewer] # <<>>
           /\ Head(delivered[viewer]) = msg[c]

\* A frame that is not a decodable signaling envelope: not JSON, not a JSON
\* object, or a join without a string role.
Malformed(f) ==
    \/ f.kind \in {"text", "scalar"}
    \/ f.kind = "object" /\ f.type = "join" /\ f.role \in {"absent", "number"}

\* C4: a malformed frame is dropped and its connection stays open: the thread
\* that holds it does not end and its stream is not closed.
C4_MalformedKeepsOpen ==
    [][\A c \in Conns :
        (pc[c] # "done" /\ Malformed(msg[c]))
        => (pc'[c] # "done" /\ sock'[c] = "open")]_vars

\* C5: a frame of a type other than join, from a connection that holds no
\* slot, changes neither slot and does not end the connection's thread.
C5_NonJoinDiscarded ==
    [][\A c \in Conns :
        (/\ Steps(c)
         /\ msg[c].kind = "object"
         /\ msg[c].type # "join"
         /\ sender # c
         /\ viewer # c)
        => (sender' = sender /\ viewer' = viewer /\ pc'[c] # "done")]_vars

\* C6: once the thread of a connection whose transport closed has finished, no
\* slot holds that connection.
C6_SlotClearedOnDisconnect ==
    \A c \in Conns :
        (pc[c] = "done" /\ sock[c] = "closed") => (sender # c /\ viewer # c)

\* C7: no thread evaluates everybody() while another thread is inside the
\* critical section of log_participants, about to write a slot.
C7_SlotAccessSerialized ==
    \A c, d \in Conns : (c # d /\ pc[c] = "cs") => pc[d] # "check"

\* C8: when a JOIN replaces a slot's occupant, the replaced connection is
\* closed in that step.
C8_EvictedIsClosed ==
    [][\A c \in Conns :
        ((sender = c /\ sender' # c) \/ (viewer = c /\ viewer' # c))
        => sock'[c] = "closed"]_vars

\* C9: on one peer connection the candidates are applied in their arrival
\* order and exactly once: buffered ones before any that arrived later.
C9_AppliedInArrivalOrder ==
    \A i, j \in DOMAIN applied :
        (i < j /\ applied[i].pc = applied[j].pc)
        => applied[i].cand.id < applied[j].cand.id

\* C10: a candidate is only ever applied to the peer connection of the session
\* it arrived in.
C10_NoStaleReplay ==
    \A i \in DOMAIN applied : applied[i].cand.sess = applied[i].pc

C12_FailureContained ==
    [][\A c \in Conns :
        (pc[c] # "done" /\ pc'[c] = "done")
        => /\ sender' = sender
           /\ viewer' = viewer
           /\ \A d \in Conns \ {c} : pc'[d] = pc[d] /\ sock'[d] = sock[d]]_vars

\* C12 witness: a thread has ended on a frame that does not parse while
\* another connection, registered as sender, goes on reading.
C12_Witness ==
    \E c, d \in Conns :
        /\ c # d
        /\ pc[c] = "done"
        /\ msg[c] \in {Garbage, Scalar, Obj("join", "absent")}
        /\ sender = d
        /\ pc[d] = "read"
        /\ sock[d] = "open"

\* C13: the disconnect of a connection that holds one role's slot leaves the
\* other role's slot unchanged.
C13_DisconnectKeepsCounterpart ==
    [][\A c \in Conns :
        (pc[c] \in {"accept", "read"} /\ pc'[c] = "done")
        => /\ sender = c => viewer' = viewer
           /\ viewer = c => sender' = sender]_vars

\* C13 witness: the sender's connection has disconnected while another
\* connection holds the viewer slot.
C13_Witness ==
    \E c, d \in Conns :
        /\ c # d
        /\ sender = c
        /\ pc[c] = "done"
        /\ sock[c] = "closed"
        /\ viewer = d

C15_NoRegistrationWhenPaired ==
    [][everybody => (sender' = sender /\ viewer' = viewer)]_vars

\* C16: when both slots are occupied they hold two distinct connections.
C16_DistinctOccupants ==
    everybody => sender # viewer

\* C17: an occupied slot never becomes empty, and once both slots are occupied
\* a connection that has not yet passed the everybody() check (not accepted
\* yet, or reading, or at the check) never enters log_participants and never
\* becomes the occupant of a slot.
C17_OccupancyMonotone ==
    [][/\ ~empty(sender) => ~empty(sender')
       /\ ~empty(viewer) => ~empty(viewer')
       /\ \A c \in Conns :
            (everybody /\ pc[c] \in {"idle", "accept", "read", "check"})
            => /\ pc'[c] \in {"idle", "accept", "read", "check", "done"}
               /\ sender' = c => sender = c
               /\ viewer' = c => viewer = c]_vars

\* C17 witness: both slots are occupied, a registered peer has disconnected,
\* and a connection that holds no slot has sent a join that is being dropped.
C17_Witness ==
    \E c, d \in Conns :
        /\ everybody
        /\ sender = c
        /\ pc[c] = "done"
        /\ sock[c] = "closed"
        /\ d \notin {sender, viewer}
        /\ pc[d] = "check"
        /\ msg[d] = Obj("join", "viewer")

\* C18: a frame whose role is a string other than "sender" and "viewer"
\* changes neither slot and does not end its thread, which goes back to read.
C18_OtherRoleIgnored ==
    [][\A c \in Conns :
        (Steps(c) /\ ParseRole(msg[c]) \notin {"throw", "sender", "viewer"})
        => /\ sender' = sender
           /\ viewer' = viewer
           /\ pc'[c] \in {"lock", "cs", "read"}
           /\ pc[c] = "cs" => pc'[c] = "read"]_vars

\* C18 witness: the connection registered as sender is inside log_participants
\* with a join for another role, while the viewer slot is empty.
C18_Witness ==
    \E c \in Conns :
        /\ pc[c] = "cs"
        /\ msg[c] = Obj("join", "other")
        /\ sender = c
        /\ empty(viewer)

\* C19: on every websocket the client opens, the first frame sent is the join
\* frame, and it is sent once: every answer or candidate frame on a websocket
\* comes after that websocket's join frame.
C19_JoinIsFirstFrame ==
    \A i \in DOMAIN wsSent :
        IF \A j \in 1..(i - 1) : wsSent[j].ws # wsSent[i].ws
        THEN wsSent[i].type = "join"
        ELSE wsSent[i].type # "join"

\* C19 witness: in a second session, after a stop() and a start(), the
\* websocket has carried its join and then an answer and a candidate frame.
C19_Witness ==
    \E i, j, k \in DOMAIN wsSent :
        /\ i < j
        /\ i < k
        /\ wsSent[i] = [ws |-> 2, type |-> "join"]
        /\ wsSent[j] = [ws |-> 2, type |-> "answer"]
        /\ wsSent[k] = [ws |-> 2, type |-> "candidate"]

TypeOK ==
    /\ pc \in [Conns -> {"idle", "accept", "read", "check", "lock", "cs", "done"}]
    /\ msg \in [Conns -> Frames \cup {NoFrame}]
    /\ sender \in Conns \cup {NoConn}
    /\ viewer \in Conns \cup {NoConn}
    /\ mutex \in Conns \cup {NoConn}
    /\ sock \in [Conns -> {"none", "open", "closed"}]
    /\ delivered \in [Conns -> Seq(Frames)]
    /\ videoControlsStart \in BOOLEAN
    /\ peerConnection \in 0..MaxSessions
    /\ websocketSignal \in 0..MaxSessions
    /\ readyState \in {"none", "connecting", "open", "closed"}
    /\ started \in 0..MaxSessions
    /\ received \in 0..MaxMsgs
    /\ gathered \in 0..MaxLocalCands
====
